---- MODULE Spec2Model ----
(***************************************************************************)
(* A model of src/src/y-codemirror.js: the CodeMirrorBinding that keeps a  *)
(* Y.Text (ytext) and a CodeMirror buffer (cmValue) in sync through the    *)
(* two observers typeObserver and targetObserver, both run under the       *)
(* binding's mutex (_mux), and that publishes and renders cursors through  *)
(* prosemirrorCursorActivity and updateRemoteSelection.                    *)
(*                                                                         *)
(* Everything runs in one thread.  A notification raised by a mutation is  *)
(* delivered inside the call that mutates, so the model keeps the call     *)
(* stack of the binding's callbacks: only the top frame steps, and a new   *)
(* top-level event is delivered only when the stack is empty.              *)
(***************************************************************************)
EXTENDS Integers, Sequences, FiniteSets, TLC

\* ------------------------------------------------------------ bounds
MaxLen == 3     \* longest text (shared text and buffer) the events may produce
MaxOps == 2     \* most operations in one delta

\* ------------------------------------------------------------ texts
NL == "\n"
Char == {"a", NL}
Str(n) == UNION {[1..k -> Char] : k \in 0..n}

\* The strings one insert brings in: a character, a line break, two lines.
Inserts == {<<"a">>, <<NL>>, <<"a", NL>>}

Min(a, b) == IF a < b THEN a ELSE b
Max(a, b) == IF a < b THEN b ELSE a

\* The text s with the characters at offsets [from, to) replaced by ins.
Splice(s, from, to, ins) ==
  LET f == Min(Max(from, 0), Len(s))
      t == Min(Max(to, f), Len(s))
  IN SubSeq(s, 1, f) \o ins \o SubSeq(s, t + 1, Len(s))

\* The editor keeps its content as lines; a string is cut at every line break.
RECURSIVE splitLines(_)
splitLines(s) ==
  IF \A k \in 1..Len(s) : s[k] # NL THEN <<s>>
  ELSE LET k == CHOOSE k \in 1..Len(s) : s[k] = NL /\ \A j \in 1..(k - 1) : s[j] # NL
       IN <<SubSeq(s, 1, k - 1)>> \o splitLines(SubSeq(s, k + 1, Len(s)))

\* Array.prototype.join('\n')
RECURSIVE join(_)
join(ls) ==
  IF ls = <<>> THEN <<>>
  ELSE IF Len(ls) = 1 THEN ls[1]
  ELSE ls[1] \o <<NL>> \o join(Tail(ls))

\* cm.posFromIndex: walk the lines, each counting its length plus one for the
\* line break; an offset past the end clips to the end of the document.
RECURSIVE posIter(_, _, _)
posIter(ls, off, k) ==
  IF k > Len(ls) THEN [line |-> Len(ls) - 1, ch |-> Len(ls[Len(ls)])]
  ELSE IF Len(ls[k]) + 1 > off THEN [line |-> k - 1, ch |-> off]
  ELSE posIter(ls, off - (Len(ls[k]) + 1), k + 1)

posFromIndex(value, off) == posIter(splitLines(value), Max(off, 0), 1)

RECURSIVE lineStart(_, _)
lineStart(ls, n) == IF n = 0 THEN 0 ELSE Len(ls[n]) + 1 + lineStart(ls, n - 1)

\* cm.indexFromPos: the position is clipped to the document, then the lengths
\* of the lines before it (plus one line break each) are added to its column.
indexFromPos(value, pos) ==
  LET ls == splitLines(value)
  IN IF pos.line < 0 \/ pos.ch < 0 THEN 0
     ELSE IF pos.line >= Len(ls) THEN Len(value)
     ELSE lineStart(ls, pos.line) + Min(pos.ch, Len(ls[pos.line + 1]))

\* The change record the editor raises for replacing [from, to) by text.
changeRecord(value, from, to, text) ==
  [from |-> from,
   removed |-> splitLines(SubSeq(value, indexFromPos(value, from) + 1, indexFromPos(value, to))),
   text |-> splitLines(text)]

\* cm.replaceRange(text, from, to): the new buffer content.
replaceRange(value, text, from, to) ==
  Splice(value, indexFromPos(value, from), indexFromPos(value, to), text)

\* ------------------------------------------------------------ deltas
\* One delta operation as the observer reads it: d.retain, d.insert, d.delete,
\* an absent field reading as 0 or as the empty string (both falsy).
Retain(n) == [retain |-> n, insert |-> <<>>, delete |-> 0]
Insert(s) == [retain |-> 0, insert |-> s, delete |-> 0]
Delete(n) == [retain |-> 0, insert |-> <<>>, delete |-> n]

DeltaOps == {Retain(n) : n \in 1..MaxLen}
            \cup {Insert(s) : s \in Inserts}
            \cup {Delete(n) : n \in 1..MaxLen}

\* The shared text's own application of a delta: the reference semantics.
RECURSIVE applyDelta(_, _, _)
applyDelta(s, delta, index) ==
  IF delta = <<>> THEN s
  ELSE LET d == Head(delta) IN
       IF d.retain > 0 THEN applyDelta(s, Tail(delta), index + d.retain)
       ELSE IF d.insert # <<>>
         THEN applyDelta(Splice(s, index, index, d.insert), Tail(delta), index + Len(d.insert))
       ELSE applyDelta(Splice(s, index, index + d.delete, <<>>), Tail(delta), index)

\* Characters of the old text a delta walks over (retained or deleted).
RECURSIVE consumed(_)
consumed(delta) ==
  IF delta = <<>> THEN 0
  ELSE Head(delta).retain + Head(delta).delete + consumed(Tail(delta))

\* The deltas the replication engine may emit for the text s.
AllDeltas == UNION {[1..k -> DeltaOps] : k \in 1..MaxOps}
Deltas(s) ==
  {d \in AllDeltas :
     /\ consumed(d) <= Len(s)
     /\ Len(applyDelta(s, d, 0)) <= MaxLen}

\* The delta the shared text emits for insert(index, text) / delete(index, n).
insertDelta(index, text) == (IF index > 0 THEN <<Retain(index)>> ELSE <<>>) \o <<Insert(text)>>
deleteDelta(index, n) == (IF index > 0 THEN <<Retain(index)>> ELSE <<>>) \o <<Delete(n)>>

\* ------------------------------------------------------------ state
VARIABLES
  ytext,        \* the shared text's content (textType.toString())
  cmValue,      \* the editor buffer's content (codeMirror.getValue())
  token,        \* the mutex flag of binding._mux: TRUE when free
  stack,        \* call stack of the binding's observers, top first
  phase,        \* "new", "valueSet" (constructor past line 158), "live", "destroyed"
  typeObservers,\* callbacks observing the shared text (textType.observe)
  typeHandlers, \* event names with a listener of the binding on the shared text
  docHandlers,  \* event names with a listener of the binding on the document
  cmHandlers,   \* event names with a listener of the binding on the editor
  cursorsOpt,   \* the constructor's cursors option
  focused,      \* cm.hasFocus()
  localCursor,  \* the local presence record's cursor field
  awareness,    \* the presence store: participant -> record or Absent
  cursors,      \* binding._cursors: participant -> {caret, sel} or NoEntry
  marks,        \* decoration handles created in the editor and not cleared
  note,         \* history: the last presence notification the binding processed
  pub,          \* history: the last cursorActivity, focus or blur signal
  ev,           \* history of the event being delivered (reset when it completes)
  lastFault     \* history: the last delivered event ended with a fault

vars == <<ytext, cmValue, token, stack, phase, typeObservers, typeHandlers, docHandlers,
          cmHandlers, cursorsOpt, focused, localCursor, awareness, cursors, marks,
          note, pub, ev, lastFault>>

textVars == <<ytext, cmValue, token, stack, ev, lastFault>>
wiringVars == <<phase, typeObservers, typeHandlers, docHandlers, cmHandlers, cursorsOpt>>
presenceVars == <<focused, localCursor, awareness, cursors, marks, note, pub>>

\* kind: the event; pre: the buffer before it; buf: the buffer when the binding
\* is called; at: the offset of a local edit; calls: the insert and delete calls
\* made on the shared text; nReplace: replaceRange calls made on the editor;
\* nOps: editor operations opened; nAcq: times the mutex was taken; nDropped:
\* observer calls the mutex did not run; fault: a fault was raised; synced: the
\* buffer was equal to the shared text before the event; indep: mutations made
\* during the event by handlers that are not the binding's.
NoEv == [kind |-> "none", pre |-> <<>>, buf |-> <<>>, at |-> 0, calls |-> <<>>, nReplace |-> 0,
         nOps |-> 0, nAcq |-> 0, nDropped |-> 0, fault |-> FALSE, synced |-> FALSE, indep |-> 0]
\* kind: the signal; hadFocus: hasFocus() when it came; wrote: the listener
\* called setAwarenessField; prior: the cursor field before; anchor, head: the
\* editor's selection.
NoPub == [kind |-> "none", hadFocus |-> FALSE, wrote |-> FALSE,
          prior |-> [set |-> FALSE, anchor |-> [type |-> "null", off |-> 0], head |-> [type |-> "null", off |-> 0]],
          anchor |-> 0, head |-> 0]
\* client: the participant notified of; had: the cursor map had an entry for
\* it; rec: the record the store held for it when the notification came.
NoNote == [client |-> 0, had |-> FALSE,
           rec |-> [present |-> FALSE,
                    user |-> [set |-> FALSE, color |-> "null", name |-> "null"],
                    cursor |-> [set |-> FALSE, anchor |-> [type |-> "null", off |-> 0],
                                head |-> [type |-> "null", off |-> 0]]]]

NoChange == [from |-> [line |-> 0, ch |-> 0], removed |-> <<>>, text |-> <<>>]

\* A frame of typeObserver(binding, event), about to call binding._mux.
typeFrame(delta) ==
  [fn |-> "typeObserver", pc |-> "mux", delta |-> delta, i |-> 1, index |-> 0,
   pending |-> <<>>, change |-> NoChange, start |-> 0]

\* A frame of targetObserver(binding, change), about to call binding._mux.
targetFrame(change) ==
  [fn |-> "targetObserver", pc |-> "mux", delta |-> <<>>, i |-> 1, index |-> 0,
   pending |-> <<>>, change |-> change, start |-> 0]

Top == Head(stack)
Idle == stack = <<>>
Running(fn, pc) == stack # <<>> /\ Top.fn = fn /\ Top.pc = pc

\* The frame on top replaced by f, with the frames in `pushed` called from it.
Continue(f, pushed) == pushed \o <<f>> \o Tail(stack)

\* The shared text notifies its observers of a mutation, inside the mutating call.
notifyType(delta) == IF typeObservers THEN <<typeFrame(delta)>> ELSE <<>>

\* The editor signals 'change' to the handlers registered on it.
signalChange(change) == IF "change" \in cmHandlers THEN <<targetFrame(change)>> ELSE <<>>

\* ------------------------------------------------------------ the mutex
\* createMutex(): mux(f) runs f only when the token is free, holding the token
\* while f runs and giving it back on every exit of f; otherwise f is not run.
muxEnter(f) == [f EXCEPT !.pc = "body"]
muxDrop == Tail(stack)
\* The token given back only when the wrapped function returns normally.
muxReleased_NoFinally == ~ev.fault
muxReleased == TRUE

\* The top frame returns: to its caller, or, from the bottom frame, to the
\* event loop, where the history of the event ends.
Return ==
  /\ stack' = Tail(stack)
  /\ IF Len(stack) = 1
       THEN ev' = NoEv /\ lastFault' = ev.fault
       ELSE ev' = ev /\ lastFault' = lastFault

\* ------------------------------------------------------------ typeObserver
\* typeObserver with its body not wrapped in binding._mux.
typeObserverMux_NoGuard ==
  /\ Running("typeObserver", "mux")
  /\ stack' = Continue(muxEnter(Top), <<>>)
  /\ ev' = [ev EXCEPT !.nOps = @ + 1]
  /\ UNCHANGED <<ytext, cmValue, token, lastFault>>
  /\ UNCHANGED <<wiringVars, presenceVars>>

\* line 10: binding._mux(() => { ... })
typeObserverMux ==
  /\ Running("typeObserver", "mux")
  /\ IF token
       THEN /\ token' = FALSE
            /\ stack' = Continue(muxEnter(Top), <<>>)
            /\ ev' = [ev EXCEPT !.nAcq = @ + 1, !.nOps = @ + 1]
            /\ lastFault' = lastFault
       ELSE /\ token' = token
            /\ stack' = muxDrop
            /\ IF Len(stack) = 1
                 THEN ev' = NoEv /\ lastFault' = ev.fault
                 ELSE ev' = [ev EXCEPT !.nDropped = @ + 1] /\ lastFault' = lastFault
  /\ UNCHANGED <<ytext, cmValue>>
  /\ UNCHANGED <<wiringVars, presenceVars>>

\* The loop with line 22 left out: the index stays where it was after an insert.
typeObserverOp_NoAdvance(f, value) ==
  LET d == f.delta[f.i] IN
  IF d.retain # 0 THEN
    [frame |-> [f EXCEPT !.i = @ + 1, !.index = @ + d.retain], value |-> value, replaced |-> 0]
  ELSE IF d.insert # <<>> THEN
    LET pos == posFromIndex(value, f.index) IN
    [frame |-> [f EXCEPT !.i = @ + 1,
                         !.pending = @ \o signalChange(changeRecord(value, pos, pos, d.insert))],
     value |-> replaceRange(value, d.insert, pos, pos), replaced |-> 1]
  ELSE
    LET start == posFromIndex(value, f.index)
        end == posFromIndex(value, f.index + d.delete) IN
    [frame |-> [f EXCEPT !.i = @ + 1,
                         !.pending = @ \o signalChange(changeRecord(value, start, end, <<>>))],
     value |-> replaceRange(value, <<>>, start, end), replaced |-> 1]

\* lines 16-27: one turn of the loop over event.delta, inside cm.operation.
\* The result is the frame after the turn and the buffer after it.
typeObserverOp(f, value) ==
  LET d == f.delta[f.i] IN
  IF d.retain # 0 THEN
    [frame |-> [f EXCEPT !.i = @ + 1, !.index = @ + d.retain], value |-> value, replaced |-> 0]
  ELSE IF d.insert # <<>> THEN
    LET pos == posFromIndex(value, f.index) IN
    [frame |-> [f EXCEPT !.i = @ + 1, !.index = @ + Len(d.insert),
                         !.pending = @ \o signalChange(changeRecord(value, pos, pos, d.insert))],
     value |-> replaceRange(value, d.insert, pos, pos), replaced |-> 1]
  ELSE IF d.delete # 0 THEN
    LET start == posFromIndex(value, f.index)
        end == posFromIndex(value, f.index + d.delete) IN
    [frame |-> [f EXCEPT !.i = @ + 1,
                         !.pending = @ \o signalChange(changeRecord(value, start, end, <<>>))],
     value |-> replaceRange(value, <<>>, start, end), replaced |-> 1]
  ELSE [frame |-> [f EXCEPT !.i = @ + 1], value |-> value, replaced |-> 0]

\* lines 15-28: the loop; past the last operation the editor's operation ends.
typeObserverLoop ==
  /\ Running("typeObserver", "body")
  /\ IF Top.i <= Len(Top.delta)
       THEN LET r == typeObserverOp(Top, cmValue) IN
            /\ cmValue' = r.value
            /\ stack' = Continue(r.frame, <<>>)
            /\ ev' = [ev EXCEPT !.nReplace = @ + r.replaced]
       ELSE /\ cmValue' = cmValue
            /\ stack' = Continue([Top EXCEPT !.pc = "endOperation"], <<>>)
            /\ ev' = ev
  /\ UNCHANGED <<ytext, token, lastFault>>
  /\ UNCHANGED <<wiringVars, presenceVars>>

\* line 29: cm.operation returns; the editor delivers the 'change' signals it
\* held back during the operation, one handler call at a time.
typeObserverEndOperation ==
  /\ Running("typeObserver", "endOperation")
  /\ IF Top.pending # <<>>
       THEN stack' = Continue([Top EXCEPT !.pending = Tail(@)], <<Head(Top.pending)>>)
       ELSE stack' = Continue([Top EXCEPT !.pc = "release"], <<>>)
  /\ UNCHANGED <<ytext, cmValue, token, ev, lastFault>>
  /\ UNCHANGED <<wiringVars, presenceVars>>

\* line 30: the mutex call returns.
typeObserverRelease ==
  /\ Running("typeObserver", "release")
  /\ token' = muxReleased
  /\ Return
  /\ UNCHANGED <<ytext, cmValue>>
  /\ UNCHANGED <<wiringVars, presenceVars>>

\* ------------------------------------------------------------ targetObserver
RECURSIVE sumLengths(_)
sumLengths(ls) == IF ls = <<>> THEN 0 ELSE Len(Head(ls)) + sumLengths(Tail(ls))

\* delLen without the line breaks between the removed lines.
delLen_NoLineBreaks(removed) == sumLengths(removed)

\* line 36: change.removed.map(s => s.length).reduce(math.add) + change.removed.length - 1
delLen(removed) == sumLengths(removed) + Len(removed) - 1

\* line 40: change.text.length > 0 (change.text is the list of inserted lines)
insertGuard(change) == Len(change.text) > 0

\* The insert placed after the deleted range instead of at its start.
insertAt_AfterDeleted(start, n) == start + n

\* line 41: the offset of the insert
insertAt(start, n) == start

\* targetObserver with its body not wrapped in binding._mux.
targetObserverMux_NoGuard ==
  /\ Running("targetObserver", "mux")
  /\ stack' = Continue(muxEnter(Top), <<>>)
  /\ UNCHANGED <<ytext, cmValue, token, ev, lastFault>>
  /\ UNCHANGED <<wiringVars, presenceVars>>

\* line 34: binding._mux(() => { ... })
targetObserverMux ==
  /\ Running("targetObserver", "mux")
  /\ IF token
       THEN /\ token' = FALSE
            /\ stack' = Continue(muxEnter(Top), <<>>)
            /\ ev' = [ev EXCEPT !.nAcq = @ + 1]
            /\ lastFault' = lastFault
       ELSE /\ token' = token
            /\ stack' = muxDrop
            /\ IF Len(stack) = 1
                 THEN ev' = NoEv /\ lastFault' = ev.fault
                 ELSE ev' = [ev EXCEPT !.nDropped = @ + 1] /\ lastFault' = lastFault
  /\ UNCHANGED <<ytext, cmValue>>
  /\ UNCHANGED <<wiringVars, presenceVars>>

\* lines 35-39: start, delLen and the delete.  reduce() of an empty array with
\* no initial value throws a TypeError.
targetObserverDelete ==
  /\ Running("targetObserver", "body")
  /\ LET change == Top.change
         start == indexFromPos(cmValue, change.from) IN
     IF change.removed = <<>>
       THEN /\ stack' = Continue([Top EXCEPT !.pc = "release"], <<>>)
            /\ ev' = [ev EXCEPT !.fault = TRUE]
            /\ ytext' = ytext
       ELSE LET n == delLen(change.removed) IN
            IF n > 0
              THEN /\ ytext' = Splice(ytext, start, start + n, <<>>)
                   /\ ev' = [ev EXCEPT !.calls = Append(@, [op |-> "delete", at |-> start, n |-> n, s |-> <<>>])]
                   /\ stack' = Continue([Top EXCEPT !.pc = "insert", !.start = start],
                                        notifyType(deleteDelta(start, n)))
              ELSE /\ ytext' = ytext
                   /\ ev' = ev
                   /\ stack' = Continue([Top EXCEPT !.pc = "insert", !.start = start], <<>>)
  /\ UNCHANGED <<cmValue, token, lastFault>>
  /\ UNCHANGED <<wiringVars, presenceVars>>

\* lines 40-42: the insert.  The shared text's insert returns at once, with no
\* transaction and no notification, for an empty string.
targetObserverInsert ==
  /\ Running("targetObserver", "insert")
  /\ LET change == Top.change
         text == join(change.text)
         at == insertAt(Top.start, delLen(change.removed)) IN
     IF insertGuard(change)
       THEN /\ ytext' = Splice(ytext, at, at, text)
            /\ ev' = [ev EXCEPT !.calls = Append(@, [op |-> "insert", at |-> at, n |-> 0, s |-> text])]
            /\ stack' = Continue([Top EXCEPT !.pc = "release"],
                                 IF text # <<>> THEN notifyType(insertDelta(at, text)) ELSE <<>>)
       ELSE /\ ytext' = ytext
            /\ ev' = ev
            /\ stack' = Continue([Top EXCEPT !.pc = "release"], <<>>)
  /\ UNCHANGED <<cmValue, token, lastFault>>
  /\ UNCHANGED <<wiringVars, presenceVars>>

\* line 43: the mutex call returns.
targetObserverRelease ==
  /\ Running("targetObserver", "release")
  /\ token' = muxReleased
  /\ Return
  /\ UNCHANGED <<ytext, cmValue>>
  /\ UNCHANGED <<wiringVars, presenceVars>>

\* ------------------------------------------------------------ presence
\* Values that may be null or undefined are records with a flag, so that every
\* value of one kind has one shape.
Clients == {1}
Null == "null"
FallbackColor == "#ffa500"
FallbackName(clientId) == IF clientId = 1 THEN "User: 1" ELSE "User: ?"

\* A JSON relative position: the text container it is anchored in and the
\* place of its anchor.  "gone" is an anchor nothing in the document answers
\* to, "null" a missing value.
RelPos(type, off) == [type |-> type, off |-> off]
NullPos == RelPos("null", 0)
RelPositions(s) == {RelPos("text", k) : k \in 0..Len(s)}
                   \cup {RelPos("other", 0), RelPos("gone", 0)}

\* Y.createRelativePositionByOffset(type, offset)
createRelativePositionByOffset(off) == RelPos("text", off)

\* Y.compareRelativePositions(a, b)
compareRelativePositions(a, b) == a = b

\* Y.toAbsolutePosition(Y.createRelativePositionFromJSON(json), y): null, or
\* the container and the offset of the anchor in the document as it is now.
toAbsolutePosition(rp) ==
  IF rp.type \in {"gone", "null"} THEN [type |-> "null", offset |-> 0]
  ELSE [type |-> rp.type, offset |-> Min(rp.off, Len(ytext))]

NullUser == [set |-> FALSE, color |-> Null, name |-> Null]
User(color, name) == [set |-> TRUE, color |-> color, name |-> name]
NullCursor == [set |-> FALSE, anchor |-> NullPos, head |-> NullPos]
Cursor(anchor, head) == [set |-> TRUE, anchor |-> anchor, head |-> head]
AbsentRecord == [present |-> FALSE, user |-> NullUser, cursor |-> NullCursor]

Users == {NullUser, User(Null, Null), User("#00f", "bob")}
CursorFields(s) == {NullCursor, Cursor(NullPos, RelPos("text", 0)), Cursor(RelPos("text", 0), NullPos)}
                   \cup {Cursor(a, h) : a \in RelPositions(s), h \in RelPositions(s)}
PresenceRecords(s) == {[present |-> TRUE, user |-> u, cursor |-> c] : u \in Users, c \in CursorFields(s)}

Pos0 == [line |-> 0, ch |-> 0]
NoMark == [kind |-> "none", owner |-> 0, from |-> Pos0, to |-> Pos0, name |-> Null, color |-> Null]
NoEntry == [set |-> FALSE, caret |-> NoMark, sel |-> NoMark]

\* handle.clear(): one decoration handle leaves the editor.
RECURSIVE clearMark(_, _)
clearMark(ms, h) ==
  IF ms = <<>> THEN <<>>
  ELSE IF Head(ms) = h THEN Tail(ms)
  ELSE <<Head(ms)>> \o clearMark(Tail(ms), h)

\* lines 46-55 and 97: the caret widget, with the name and the colour it
\* shows, set as a bookmark at pos.
createRemoteCaret(clientId, pos, username, color) ==
  [kind |-> "caret", owner |-> clientId, from |-> pos, to |-> pos, name |-> username, color |-> color]

\* line 100: cm.markText(from, to, {css: ...})
markText(clientId, from, to, color) ==
  [kind |-> "sel", owner |-> clientId, from |-> from, to |-> to, name |-> Null, color |-> color]

\* The marks cleared with line 65 left out: the map keeps its entry.
clearCursor_KeepEntry(cs, ms, clientId) ==
  LET m == cs[clientId] IN
  IF m.set
    THEN [cursors |-> cs,
          marks |-> IF m.sel # NoMark THEN clearMark(clearMark(ms, m.caret), m.sel)
                    ELSE clearMark(ms, m.caret)]
    ELSE [cursors |-> cs, marks |-> ms]

\* The marks cleared with lines 62-64 left out: the selection handle stays in
\* the editor.
clearCursor_KeepSel(cs, ms, clientId) ==
  LET m == cs[clientId] IN
  IF m.set
    THEN [cursors |-> [cs EXCEPT ![clientId] = NoEntry], marks |-> clearMark(ms, m.caret)]
    ELSE [cursors |-> cs, marks |-> ms]

\* lines 59-66: destroy the current text marks of clientId.
clearCursor(cs, ms, clientId) ==
  LET m == cs[clientId] IN
  IF m.set
    THEN [cursors |-> [cs EXCEPT ![clientId] = NoEntry],
          marks |-> IF m.sel # NoMark THEN clearMark(clearMark(ms, m.caret), m.sel)
                    ELSE clearMark(ms, m.caret)]
    ELSE [cursors |-> cs, marks |-> ms]

\* lines 72-78: the display fields; an existing user object is written to.
resolveUser(aw, clientId) ==
  LET user == IF aw.user.set THEN aw.user ELSE User(Null, Null)
      u1 == IF user.color = Null THEN [user EXCEPT !.color = FallbackColor] ELSE user
  IN IF u1.name = Null THEN [u1 EXCEPT !.name = FallbackName(clientId)] ELSE u1

\* lines 80-82: nothing to draw
noCursor(cursor) == ~cursor.set \/ cursor.anchor = NullPos \/ cursor.head = NullPos

\* The span with the ordering of lines 87-95 left out: from the anchor to the
\* head, whichever comes first.
selectionRange_Unordered(anchor, head, anchorpos, headpos) ==
  [from |-> anchorpos, to |-> headpos]

\* lines 86-95: the span runs from the smaller of the two offsets to the
\* larger one.
selectionRange(anchor, head, anchorpos, headpos) ==
  IF head.offset < anchor.offset
    THEN [from |-> headpos, to |-> anchorpos]
    ELSE [from |-> anchorpos, to |-> headpos]

\* lines 57-104: cursors, marks and the presence store after
\* updateRemoteSelection(y, cm, type, cursors, clientId).
updateRemoteSelection(cs, ms, aws, clientId) ==
  LET cleared == clearCursor(cs, ms, clientId)
      aw == aws[clientId] IN
  IF ~aw.present THEN [cursors |-> cleared.cursors, marks |-> cleared.marks, awareness |-> aws]
  ELSE
    LET user == resolveUser(aw, clientId)
        aws2 == IF aw.user.set THEN [aws EXCEPT ![clientId].user = user] ELSE aws
        cursor == aw.cursor
    IN
    IF noCursor(cursor)
      THEN [cursors |-> cleared.cursors, marks |-> cleared.marks, awareness |-> aws2]
    ELSE
      LET anchor == toAbsolutePosition(cursor.anchor)
          head == toAbsolutePosition(cursor.head)
      IN
      IF anchor.type # "null" /\ head.type # "null" /\ anchor.type = "text" /\ head.type = "text"
        THEN LET headpos == posFromIndex(cmValue, head.offset)
                 anchorpos == posFromIndex(cmValue, anchor.offset)
                 range == selectionRange(anchor, head, anchorpos, headpos)
                 from == range.from
                 to == range.to
                 caret == createRemoteCaret(clientId, headpos, user.name, user.color)
                 sel == IF head.offset # anchor.offset
                          THEN markText(clientId, from, to, user.color)
                          ELSE NoMark
             IN [cursors |-> [cleared.cursors EXCEPT ![clientId] = [set |-> TRUE, caret |-> caret, sel |-> sel]],
                 marks |-> cleared.marks \o <<caret>> \o (IF sel # NoMark THEN <<sel>> ELSE <<>>),
                 awareness |-> aws2]
        ELSE [cursors |-> cleared.cursors, marks |-> cleared.marks, awareness |-> aws2]

\* The guard with lines 107-109 left out: the focus is not looked at.
setsCursorField_NoFocusCheck(cur, hasFocus, anchorPos, headPos) ==
  LET newAnchor == createRelativePositionByOffset(indexFromPos(cmValue, anchorPos))
      newHead == createRelativePositionByOffset(indexFromPos(cmValue, headPos))
  IN \/ ~cur.set
     \/ ~compareRelativePositions(cur.anchor, newAnchor)
     \/ ~compareRelativePositions(cur.head, newHead)

\* The guard with the comparison of line 119 left out: every notification
\* received with focus is published.
setsCursorField_Always(cur, hasFocus, anchorPos, headPos) == hasFocus

\* lines 107-109 and 119: prosemirrorCursorActivity calls
\* y.setAwarenessField('cursor', ...) when the editor has focus and the
\* published cursor is null or one of its ends is not the new one.
setsCursorField(cur, hasFocus, anchorPos, headPos) ==
  /\ hasFocus
  /\ LET newAnchor == createRelativePositionByOffset(indexFromPos(cmValue, anchorPos))
         newHead == createRelativePositionByOffset(indexFromPos(cmValue, headPos))
     IN \/ ~cur.set
        \/ ~compareRelativePositions(cur.anchor, newAnchor)
        \/ ~compareRelativePositions(cur.head, newHead)

\* lines 106-125: the local cursor field after prosemirrorCursorActivity, for
\* the editor's selection (anchor, head) given as positions.
prosemirrorCursorActivity(cur, hasFocus, anchorPos, headPos) ==
  IF setsCursorField(cur, hasFocus, anchorPos, headPos)
    THEN Cursor(createRelativePositionByOffset(indexFromPos(cmValue, anchorPos)),
                createRelativePositionByOffset(indexFromPos(cmValue, headPos)))
    ELSE cur

\* The blur listener with the field left as it is.
blurListener_Keep(cur) == cur

\* lines 170-171: _blurListeer, doc.setAwarenessField('cursor', null)
blurListener(cur) == NullCursor

\* ------------------------------------------------------------ the binding
\* The options object of the constructor: cursors given as true or false, or
\* not given.
Options == {"omitted", "true", "false"}

\* line 149: { cursors = true } = {}
cursorsOption(option) == IF option = "omitted" THEN TRUE ELSE option = "true"

\* The handlers registered whatever the option says.
cursorHandlers_Always(on) ==
  [cm |-> {"cursorActivity", "blur", "focus"}, doc |-> {"awareness"}]

\* lines 174-179: the handlers registered on the editor and on the document
\* when cursors is true.
cursorHandlers(on) ==
  IF on THEN [cm |-> {"cursorActivity", "blur", "focus"}, doc |-> {"awareness"}]
  ELSE [cm |-> {}, doc |-> {}]

InitTexts == {<<>>, <<"a", NL, "a">>}
InitValues == {<<>>, <<"a">>}

Init ==
  /\ ytext \in InitTexts
  /\ cmValue \in InitValues
  /\ token = TRUE
  /\ stack = <<>>
  /\ phase = "new"
  /\ typeObservers = FALSE
  /\ typeHandlers = {}
  /\ docHandlers = {}
  /\ cmHandlers = {}
  /\ cursorsOpt \in {cursorsOption(o) : o \in Options}
  /\ focused \in BOOLEAN
  /\ localCursor = NullCursor
  /\ awareness = [c \in Clients |-> AbsentRecord]
  /\ cursors = [c \in Clients |-> NoEntry]
  /\ marks = <<>>
  /\ note = NoNote
  /\ pub = NoPub
  /\ ev = NoEv
  /\ lastFault = FALSE

\* The binding constructed with cursors enabled (the default), on an editor
\* that does not have the focus.
InitDefault == Init /\ cursorsOpt = TRUE /\ focused = FALSE

\* The history of an event starts when it calls into the binding.
startEvent(kind, frames, buf, at) ==
  IF frames = <<>> THEN NoEv
  ELSE [NoEv EXCEPT !.kind = kind, !.pre = cmValue, !.buf = buf, !.at = at,
                    !.synced = (cmValue = ytext)]

\* line 158: codeMirror.setValue(textType.toString()); the editor signals the
\* change to the handlers registered on it at that moment.
CtorSetValue ==
  /\ phase = "new"
  /\ cmValue' = ytext
  /\ LET frames == signalChange(changeRecord(cmValue, Pos0, posFromIndex(cmValue, Len(cmValue)), ytext)) IN
       /\ stack' = frames
       /\ ev' = startEvent("construct", frames, ytext, 0)
  /\ phase' = "valueSet"
  /\ UNCHANGED <<ytext, token, lastFault, typeObservers, typeHandlers, docHandlers, cmHandlers, cursorsOpt>>
  /\ UNCHANGED presenceVars

\* lines 172-179: the constructor registers its observers.
CtorRegister ==
  /\ phase = "valueSet"
  /\ Idle
  /\ typeObservers' = TRUE
  /\ cmHandlers' = cmHandlers \cup {"change"} \cup cursorHandlers(cursorsOpt).cm
  /\ docHandlers' = docHandlers \cup cursorHandlers(cursorsOpt).doc
  /\ phase' = "live"
  /\ UNCHANGED <<typeHandlers, cursorsOpt>>
  /\ UNCHANGED <<textVars, presenceVars>>

\* lines 181-190: destroy().  The listener the constructor put on the document
\* is taken off the shared text.  A shared text with no off method makes line
\* 184 throw, and the rest of destroy does not run.
destroy(typeHasOff) ==
  /\ phase = "live"
  /\ Idle
  /\ typeObservers' = FALSE
  /\ docHandlers' = docHandlers
  /\ IF typeHasOff
       THEN /\ typeHandlers' = typeHandlers \ {"awareness"}
            /\ cmHandlers' = cmHandlers \ {"change", "cursorActivity", "focus", "blur"}
            /\ phase' = "destroyed"
       ELSE /\ typeHandlers' = typeHandlers
            /\ cmHandlers' = cmHandlers \ {"change"}
            /\ phase' = "destroyFailed"
  /\ UNCHANGED cursorsOpt
  /\ UNCHANGED <<textVars, presenceVars>>

\* ------------------------------------------------------------ events
Constructed == phase \in {"live", "destroyed", "destroyFailed"}

\* The user (or the application) replaces [from, to) of the buffer by ins; the
\* editor signals 'change' with the change record.
LocalEdit(from, to, ins) ==
  /\ Constructed /\ Idle
  /\ Len(cmValue) - (to - from) + Len(ins) <= MaxLen
  /\ cmValue' = Splice(cmValue, from, to, ins)
  /\ LET frames == signalChange(changeRecord(cmValue, posFromIndex(cmValue, from),
                                             posFromIndex(cmValue, to), ins)) IN
       /\ stack' = frames
       /\ ev' = startEvent("local", frames, Splice(cmValue, from, to, ins), from)
  /\ UNCHANGED <<ytext, token, lastFault>>
  /\ UNCHANGED <<wiringVars, presenceVars>>

\* ins is inserted at from in the buffer and 'change' is signalled with a
\* record that lists no removed line (removed: []) instead of the one empty
\* line CodeMirror lists for an insertion.
InsertNoRemoved(from, ins) ==
  /\ Constructed /\ Idle
  /\ Len(cmValue) + Len(ins) <= MaxLen
  /\ cmValue' = Splice(cmValue, from, from, ins)
  /\ LET pos == posFromIndex(cmValue, from)
         frames == signalChange([changeRecord(cmValue, pos, pos, ins) EXCEPT !.removed = <<>>]) IN
       /\ stack' = frames
       /\ ev' = startEvent("local", frames, Splice(cmValue, from, from, ins), from)
  /\ UNCHANGED <<ytext, token, lastFault>>
  /\ UNCHANGED <<wiringVars, presenceVars>>

\* A transaction (of a remote peer, or of the application on this peer)
\* mutates the shared text, which notifies its observers with the delta.
RemoteMutation(delta) ==
  /\ Constructed /\ Idle
  /\ ytext' = applyDelta(ytext, delta, 0)
  /\ LET frames == notifyType(delta) IN
       /\ stack' = frames
       /\ ev' = startEvent("remote", frames, cmValue, 0)
  /\ UNCHANGED <<cmValue, token, lastFault>>
  /\ UNCHANGED <<wiringVars, presenceVars>>

\* The presence store takes a new state for clientId (rec, or AbsentRecord when
\* the participant is removed) and the document emits 'awareness'.
AwarenessChange(clientId, rec) ==
  /\ Constructed /\ Idle
  /\ LET store == [awareness EXCEPT ![clientId] = rec] IN
     IF "awareness" \in docHandlers
       THEN LET r == updateRemoteSelection(cursors, marks, store, clientId) IN
            /\ awareness' = r.awareness
            /\ cursors' = r.cursors
            /\ marks' = r.marks
            /\ note' = [client |-> clientId, had |-> cursors[clientId].set, rec |-> rec]
       ELSE /\ awareness' = store
            /\ UNCHANGED <<cursors, marks, note>>
  /\ UNCHANGED <<focused, localCursor, pub>>
  /\ UNCHANGED <<textVars, wiringVars>>

\* The listener of cursorActivity and focus (line 169) runs for the signal
\* kind, with the editor's selection (anchor, head) and hasFocus() as given.
cursorListener(kind, hasFocus, anchor, head) ==
  LET anchorPos == posFromIndex(cmValue, anchor)
      headPos == posFromIndex(cmValue, head)
      on == kind \in cmHandlers
  IN
  /\ localCursor' = IF on THEN prosemirrorCursorActivity(localCursor, hasFocus, anchorPos, headPos)
                     ELSE localCursor
  /\ pub' = [kind |-> kind, hadFocus |-> hasFocus,
             wrote |-> on /\ setsCursorField(localCursor, hasFocus, anchorPos, headPos),
             prior |-> localCursor, anchor |-> anchor, head |-> head]

\* The editor signals 'cursorActivity'; its selection is (anchor, head).
CursorActivity(anchor, head) ==
  /\ Constructed /\ Idle
  /\ cursorListener("cursorActivity", focused, anchor, head)
  /\ UNCHANGED <<focused, awareness, cursors, marks, note>>
  /\ UNCHANGED <<textVars, wiringVars>>

\* The editor gains input focus and signals 'focus'.
Focus(anchor, head) ==
  /\ Constructed /\ Idle
  /\ ~focused
  /\ focused' = TRUE
  /\ cursorListener("focus", TRUE, anchor, head)
  /\ UNCHANGED <<awareness, cursors, marks, note>>
  /\ UNCHANGED <<textVars, wiringVars>>

\* The editor signals 'focus' without its input field having become the
\* active element (ensureFocus after a focus() call that had no effect).
FocusWithoutFocus(anchor, head) ==
  /\ Constructed /\ Idle
  /\ ~focused
  /\ cursorListener("focus", FALSE, anchor, head)
  /\ UNCHANGED <<focused, awareness, cursors, marks, note>>
  /\ UNCHANGED <<textVars, wiringVars>>

\* lines 170-171: the editor loses input focus and signals 'blur'.
Blur ==
  /\ Constructed /\ Idle
  /\ focused
  /\ focused' = FALSE
  /\ localCursor' = IF "blur" \in cmHandlers THEN blurListener(localCursor) ELSE localCursor
  /\ pub' = [kind |-> "blur", hadFocus |-> FALSE, wrote |-> "blur" \in cmHandlers,
             prior |-> localCursor, anchor |-> 0, head |-> 0]
  /\ UNCHANGED <<awareness, cursors, marks, note>>
  /\ UNCHANGED <<textVars, wiringVars>>

\* A call of a collaborator made by the running observer throws.  cm.operation
\* ends the editor's operation on its way out; the mutex call is left next.
CollaboratorFault ==
  /\ stack # <<>>
  /\ Top.pc \in {"body", "insert"}
  /\ stack' = Continue([Top EXCEPT !.pc = IF Top.fn = "typeObserver" THEN "endOperation" ELSE "release"], <<>>)
  /\ ev' = [ev EXCEPT !.fault = TRUE]
  /\ UNCHANGED <<ytext, cmValue, token, lastFault>>
  /\ UNCHANGED <<wiringVars, presenceVars>>

\* The shared text is notifying its observers of a call targetObserver has
\* just made (a delete, or an insert of a non-empty string).
typeNotifying ==
  /\ stack # <<>> /\ Top.fn = "targetObserver" /\ ev.calls # <<>>
  /\ LET last == ev.calls[Len(ev.calls)] IN
     \/ Top.pc = "insert" /\ last.op = "delete"
     \/ Top.pc = "release" /\ last.op = "insert" /\ last.s # <<>>

\* An observer of the shared text that is not the binding's, notified of the
\* call targetObserver made, mutates the shared text in its turn; the shared
\* text notifies its observers of that mutation inside the same call.
ObserverMutation(delta) ==
  /\ typeNotifying
  /\ ev.indep = 0
  /\ ytext' = applyDelta(ytext, delta, 0)
  /\ stack' = Continue(Top, notifyType(delta))
  /\ ev' = [ev EXCEPT !.indep = 1]
  /\ UNCHANGED <<cmValue, token, lastFault>>
  /\ UNCHANGED <<wiringVars, presenceVars>>

\* A 'change' handler of the editor that is not the binding's, called at the
\* end of the operation typeObserver opened, edits the buffer in its turn; the
\* edit joins the operation, and its 'change' signal is delivered before
\* cm.operation returns.
HandlerEdit(from, to, ins) ==
  /\ Running("typeObserver", "endOperation")
  /\ ev.nReplace > 0
  /\ ev.indep = 0
  /\ Len(cmValue) - (to - from) + Len(ins) <= MaxLen
  /\ cmValue' = Splice(cmValue, from, to, ins)
  /\ stack' = Continue([Top EXCEPT !.pending = @ \o signalChange(
                          changeRecord(cmValue, posFromIndex(cmValue, from),
                                       posFromIndex(cmValue, to), ins))], <<>>)
  /\ ev' = [ev EXCEPT !.indep = 1]
  /\ UNCHANGED <<ytext, token, lastFault>>
  /\ UNCHANGED <<wiringVars, presenceVars>>

\* ------------------------------------------------------------ specifications
Offsets(s) == 0..Len(s)

Construct == CtorSetValue \/ CtorRegister

Observers ==
  \/ typeObserverMux \/ typeObserverLoop \/ typeObserverEndOperation \/ typeObserverRelease
  \/ targetObserverMux \/ targetObserverDelete \/ targetObserverInsert \/ targetObserverRelease

TextEvents ==
  /\ Constructed /\ Idle
  /\ \/ \E from \in Offsets(cmValue) : \E to \in from..Len(cmValue) : \E ins \in Inserts \cup {<<>>} :
          LocalEdit(from, to, ins)
     \/ \E delta \in Deltas(ytext) : RemoteMutation(delta)

RenderEvents ==
  /\ Constructed /\ Idle
  /\ \E c \in Clients : \E rec \in PresenceRecords(ytext) \cup {AbsentRecord} : AwarenessChange(c, rec)

PublishEvents ==
  /\ Constructed /\ Idle
  /\ \/ \E a \in Offsets(cmValue) : \E h \in Offsets(cmValue) : CursorActivity(a, h)
     \/ \E a \in Offsets(cmValue) : \E h \in Offsets(cmValue) : Focus(a, h)
     \/ \E a \in Offsets(cmValue) : \E h \in Offsets(cmValue) : FocusWithoutFocus(a, h)
     \/ Blur

Destroy == \E typeHasOff \in BOOLEAN : destroy(typeHasOff)

\* Text synchronisation: edits of the buffer and mutations of the shared text.
Next == Construct \/ Observers \/ TextEvents \/ Destroy
Spec == InitDefault /\ [][Next]_vars

\* Text synchronisation with collaborators that may throw, on texts one
\* character shorter and with one-operation deltas.
FaultLen == MaxLen - 1

FaultEvents ==
  /\ Constructed /\ Idle
  /\ \/ \E from \in Offsets(cmValue) : \E to \in from..Len(cmValue) : \E ins \in {<<>>, <<"a">>, <<NL>>} :
          /\ Len(cmValue) - (to - from) + Len(ins) <= FaultLen
          /\ Len(ytext) + Len(ins) <= FaultLen
          /\ LocalEdit(from, to, ins)
     \/ \E delta \in Deltas(ytext) :
          /\ Len(delta) = 1
          /\ Len(applyDelta(ytext, delta, 0)) <= FaultLen
          /\ Len(cmValue) + Len(delta[1].insert) <= FaultLen
          /\ RemoteMutation(delta)

NextFault == Construct \/ Observers \/ FaultEvents \/ CollaboratorFault
SpecFault == InitDefault /\ [][NextFault]_vars

\* Text synchronisation with other handlers on the shared text and on the
\* editor, which react to a mutation by one mutation of their own.
NestedEvents ==
  \/ /\ typeNotifying
     /\ Len(ytext) < MaxLen
     /\ \E at \in Offsets(ytext) : ObserverMutation(insertDelta(at, <<"a">>))
  \/ /\ Running("typeObserver", "endOperation")
     /\ \E from \in Offsets(cmValue) : \E to \in from..Len(cmValue) : \E ins \in {<<>>, <<"a">>} :
          /\ (from # to \/ ins # <<>>)
          /\ HandlerEdit(from, to, ins)

NextNested == Construct \/ Observers \/ FaultEvents \/ NestedEvents
SpecNested == InitDefault /\ [][NextNested]_vars

\* Text synchronisation with an editor that may list no removed line for an
\* insertion.
MalformedEvents ==
  /\ Constructed /\ Idle
  /\ \E from \in Offsets(cmValue) : \E ins \in {<<"a">>, <<NL>>} :
       /\ Len(cmValue) + Len(ins) <= FaultLen
       /\ InsertNoRemoved(from, ins)

NextMalformed == Construct \/ Observers \/ FaultEvents \/ MalformedEvents
SpecMalformed == InitDefault /\ [][NextMalformed]_vars

\* A binding constructed with cursors: false, under edits and one-operation
\* mutations of texts one character shorter, presence
\* notifications for one record, and cursor, focus and blur signals for the
\* selections that start at offset 0.
InitDisabled == Init /\ cursorsOpt = FALSE

DisabledRecords ==
  {AbsentRecord,
   [present |-> TRUE, user |-> NullUser, cursor |-> Cursor(RelPos("text", 0), RelPos("text", 1))]}

DisabledEvents ==
  /\ Constructed /\ Idle
  /\ \/ \E from \in Offsets(cmValue) : \E to \in from..Len(cmValue) : \E ins \in {<<>>, <<"a">>, <<NL>>} :
          /\ Len(cmValue) - (to - from) + Len(ins) <= FaultLen
          /\ Len(ytext) + Len(ins) <= FaultLen
          /\ LocalEdit(from, to, ins)
     \/ \E at \in Offsets(ytext) : \E ins \in {<<"a">>, <<NL>>} :
          /\ Len(ytext) < FaultLen /\ Len(cmValue) < FaultLen
          /\ RemoteMutation(insertDelta(at, ins))
     \/ \E at \in Offsets(ytext) : \E n \in 1..MaxLen :
          /\ at + n <= Len(ytext)
          /\ RemoteMutation(deleteDelta(at, n))
     \/ \E c \in Clients : \E rec \in DisabledRecords : AwarenessChange(c, rec)
     \/ \E h \in Offsets(cmValue) : CursorActivity(0, h)
     \/ \E h \in Offsets(cmValue) : Focus(0, h)
     \/ FocusWithoutFocus(0, Len(cmValue))
     \/ Blur

NextDisabled == Construct \/ Observers \/ DisabledEvents \/ Destroy
SpecDisabled == InitDisabled /\ [][NextDisabled]_vars

\* Remote cursors: presence notifications rendered as decorations.
NextCursor == Construct \/ RenderEvents \/ Destroy
SpecCursor == Init /\ [][NextCursor]_vars

\* The local cursor: cursor activity, focus and blur published as presence.
NextPublish == Construct \/ PublishEvents \/ Destroy
SpecPublish == Init /\ [][NextPublish]_vars

\* ------------------------------------------------------------ claims
AtRelease(fn, kind) == Len(stack) = 1 /\ Running(fn, "release") /\ ev.kind = kind
CallsOf(op) == SelectSeq(ev.calls, LAMBDA c : c.op = op)

\* C1: once the constructor has set the buffer, whenever no callback of the
\* binding is running the buffer's content equals the shared text's content,
\* for every sequence of local edits and shared-text mutations; and the
\* constructor copies the shared text into the buffer without running an
\* observer, so without any insert or delete on the shared text.
C1_BufferEqualsSharedText ==
  /\ (Idle /\ phase \in {"valueSet", "live"}) => cmValue = ytext
  /\ phase \in {"new", "valueSet"} => (stack = <<>> /\ ev.calls = <<>> /\ ytext \in InitTexts)

C1_Witness ==
  /\ Idle /\ phase = "live"
  /\ cmValue = ytext
  /\ ytext = <<NL, "a", NL>>

\* C2: while a local edit is translated by targetObserver, the notifications
\* the shared text raises for the insert and delete calls make typeObserver
\* perform no replaceRange: the buffer stays as the edit left it.
C2_NoEchoIntoBuffer ==
  ev.kind = "local" => (ev.nReplace = 0 /\ cmValue = ev.buf)

C2_Witness ==
  /\ AtRelease("targetObserver", "local")
  /\ Len(CallsOf("delete")) = 1 /\ Len(CallsOf("insert")) = 1
  /\ ev.nDropped = 2
  /\ cmValue = ev.buf /\ cmValue # ev.pre

\* C3: while typeObserver applies a delta to the buffer, all its edits run in
\* one editor operation and one activation of the mutex, and no 'change'
\* notification of those edits makes targetObserver call insert or delete on
\* the shared text, however many operations the delta has: every one of the
\* notifications is dropped.
C3_NoEchoIntoSharedText ==
  /\ ev.kind = "remote" => (ev.calls = <<>> /\ ev.nOps <= 1 /\ ev.nAcq <= 1)
  /\ AtRelease("typeObserver", "remote") =>
       (ev.nOps = 1 /\ ev.nAcq = 1 /\ ev.nDropped = ev.nReplace)

C3_Witness ==
  /\ AtRelease("typeObserver", "remote")
  /\ ev.nReplace = MaxOps /\ ev.nDropped = MaxOps
  /\ ev.calls = <<>> /\ ev.nOps = 1 /\ ev.nAcq = 1

\* C7: for a well-formed delta and a buffer equal to the shared text before
\* the mutation, the buffer after typeObserver has run equals the delta applied
\* with an index starting at 0: retain advances the index, insert puts the
\* string at the index and advances by its length, delete removes
\* [index, index + n) of the buffer as the earlier operations left it.
C7_DeltaApplied ==
  AtRelease("typeObserver", "remote") => cmValue = applyDelta(ev.pre, Top.delta, 0)

C7_Witness ==
  /\ AtRelease("typeObserver", "remote")
  /\ Len(Top.delta) = MaxOps
  /\ \E i \in 1..Len(Top.delta) : \E j \in 1..Len(Top.delta) :
       i < j /\ NL \in {Top.delta[i].insert[k] : k \in 1..Len(Top.delta[i].insert)}
             /\ Top.delta[j].delete > 0
  /\ cmValue = applyDelta(ev.pre, Top.delta, 0)
  /\ cmValue # ev.pre

\* The characters a local edit took out of the buffer, counted on the buffer.
RemovedCount(change) == Len(ev.pre) + Len(join(change.text)) - Len(ev.buf)
FiveSevenLines == <<[i \in 1..5 |-> "a"], <<>>, [i \in 1..7 |-> "a"]>>

\* C8: for every change record, deletedLength is the sum of the lengths of the
\* removed lines plus the number of removed lines minus one, which is the
\* number of characters the edit removed; targetObserver calls delete(start,
\* deletedLength) if and only if deletedLength > 0, start being the offset of
\* the record's from position.  Removed lines of lengths 5, 0, 7 give 14.
C8_DeletedLength ==
  /\ delLen(FiveSevenLines) = 14
  /\ AtRelease("targetObserver", "local") =>
       LET n == RemovedCount(Top.change) IN
       /\ delLen(Top.change.removed) = n
       /\ CallsOf("delete") = IF n > 0
                                THEN <<[op |-> "delete", at |-> ev.at, n |-> n, s |-> <<>>]>>
                                ELSE <<>>

C8_Witness ==
  /\ AtRelease("targetObserver", "local")
  /\ Len(Top.change.removed) = 2
  /\ CallsOf("delete") = <<[op |-> "delete", at |-> ev.at, n |-> MaxLen, s |-> <<>>]>>

\* C9: targetObserver calls insert on the shared text only if the inserted
\* lines joined by line breaks are a non-empty string (a pure deletion issues
\* no insert call); an insert is made at the start offset, after the delete.
C9_InsertOnlyIfNonEmpty ==
  AtRelease("targetObserver", "local") =>
    /\ (join(Top.change.text) = <<>> => CallsOf("insert") = <<>>)
    /\ \A k \in 1..Len(ev.calls) :
         ev.calls[k].op = "insert" => (ev.calls[k].at = ev.at /\ k = Len(ev.calls))

\* The frames that hold the mutex: those past their call of binding._mux.
Holders == {k \in 1..Len(stack) : stack[k].pc # "mux"}
Directions == {stack[k].fn : k \in Holders}

\* A call of an observer that finds the mutex taken.
Refused == stack # <<>> /\ Top.pc = "mux" /\ ~token

\* C4: after destroy() has returned, every handler the constructor registered
\* (the shared text's observer, the awareness listener on the document, the
\* editor's change, cursorActivity, focus and blur handlers) is registered
\* nowhere, so that no later event calls into the destroyed binding.
C4_AllHandlersRemoved ==
  phase = "destroyed" =>
    /\ ~typeObservers
    /\ cmHandlers = {}
    /\ docHandlers = {}
    /\ typeHandlers = {}

\* C5: at most one of the two directions holds the binding's mutex in any
\* state, and an observer call that finds the mutex taken runs none of its
\* body, raises no fault and is not kept for later: the call returns with the
\* texts, the mutex and the calls made so far as they were.
C5_OneDirectionAndDrop ==
  /\ [](Cardinality(Holders) <= 1 /\ Cardinality(Directions) <= 1 /\ (token <=> Holders = {}))
  /\ [][Refused => /\ stack' = Tail(stack)
                   /\ ytext' = ytext /\ cmValue' = cmValue /\ token' = token
                   /\ ev'.calls = ev.calls /\ ev'.nReplace = ev.nReplace
                   /\ ev'.nAcq = ev.nAcq /\ ev'.fault = ev.fault
                   /\ ev'.nDropped = ev.nDropped + 1]_vars

C5_Witness ==
  /\ ev.nDropped >= 1
  /\ ~token
  /\ Cardinality(Holders) = 1
  /\ Len(stack) = 1

\* C6: when the function running under the mutex raises a fault, in either
\* observer, the mutex is free again once the observer has returned, so the
\* next top-level delta or change finds it free and is translated, not dropped.
C6_ReleasedAfterFault ==
  /\ Idle => token
  /\ (Len(stack) = 1 /\ Top.pc = "mux") => token

C6_Witness ==
  /\ lastFault
  /\ Len(stack) = 1 /\ Top.pc = "body"
  /\ ~token /\ ev.nAcq = 1 /\ ~ev.fault

\* No decoration of clientId is left in the editor.
NoMarksOf(clientId) == \A k \in 1..Len(marks) : marks[k].owner # clientId

\* C10: after updateRemoteSelection has processed a notification for a
\* participant whose presence record is absent, or has cursor null, or lacks
\* anchor or head, the cursor map has no entry for the participant and every
\* caret and selection handle made for it before has been cleared.
C10_NothingToDrawClears ==
  \A c \in Clients :
    (note.client = c /\ (~awareness[c].present \/ noCursor(awareness[c].cursor)))
      => (~cursors[c].set /\ NoMarksOf(c))

C10_Witness ==
  /\ note.client = 1 /\ note.had
  /\ awareness[1].present
  /\ awareness[1].cursor = Cursor(RelPos("text", 0), NullPos)
  /\ ~cursors[1].set /\ marks = <<>>

\* The presence record of clientId has a cursor whose two ends decode to
\* offsets of the bound text.
Drawable(clientId) ==
  LET aw == awareness[clientId] IN
  /\ aw.present
  /\ ~noCursor(aw.cursor)
  /\ toAbsolutePosition(aw.cursor.anchor).type = "text"
  /\ toAbsolutePosition(aw.cursor.head).type = "text"

MarksOf(clientId, kind) ==
  SelectSeq(marks, LAMBDA m : m.owner = clientId /\ m.kind = kind)

\* C11: after updateRemoteSelection has processed a notification for a
\* participant whose anchor and head decode to offsets of the bound text, the
\* caret is at the head offset, and there is one highlighted span, from the
\* smaller to the larger of the two offsets, if and only if the offsets
\* differ; with equal offsets no selection decoration is made.
C11_CaretAtHeadSpanOrdered ==
  \A c \in Clients :
    (note.client = c /\ Drawable(c)) =>
      LET a == toAbsolutePosition(awareness[c].cursor.anchor).offset
          h == toAbsolutePosition(awareness[c].cursor.head).offset
          m == cursors[c]
      IN
      /\ m.set
      /\ m.caret.kind = "caret"
      /\ m.caret.from = m.caret.to
      /\ indexFromPos(cmValue, m.caret.from) = h
      /\ MarksOf(c, "caret") = <<m.caret>>
      /\ IF a = h
           THEN m.sel = NoMark /\ MarksOf(c, "sel") = <<>>
           ELSE /\ m.sel.kind = "sel"
                /\ indexFromPos(cmValue, m.sel.from) = Min(a, h)
                /\ indexFromPos(cmValue, m.sel.to) = Max(a, h)
                /\ MarksOf(c, "sel") = <<m.sel>>

C11_Witness ==
  /\ note.client = 1 /\ Drawable(1)
  /\ awareness[1].cursor = Cursor(RelPos("text", 3), RelPos("text", 1))
  /\ indexFromPos(cmValue, cursors[1].caret.from) = 1
  /\ indexFromPos(cmValue, cursors[1].sel.from) = 1
  /\ indexFromPos(cmValue, cursors[1].sel.to) = 3

\* The handles the cursor map records for clientId.
Recorded(clientId) ==
  LET m == cursors[clientId] IN
  IF m.set THEN <<m.caret>> \o (IF m.sel # NoMark THEN <<m.sel>> ELSE <<>>) ELSE <<>>

\* C12: in every state and for every participant, the decoration handles made
\* for the participant and not cleared are exactly the handles the cursor map
\* records under its id, at most one caret and at most one selection: no
\* sequence of presence notifications makes decorations accumulate, and a new
\* pair of handles is made only once the earlier pair has been cleared.
C12_MarksAreTheMap ==
  \A c \in Clients :
    LET m == cursors[c] IN
    /\ SelectSeq(marks, LAMBDA h : h.owner = c) = Recorded(c)
    /\ Len(MarksOf(c, "caret")) <= 1
    /\ Len(MarksOf(c, "sel")) <= 1
    /\ IF m.set
         THEN m.caret.kind = "caret" /\ m.sel.kind \in {"sel", "none"}
         ELSE m = NoEntry

C12_Witness ==
  /\ note.client = 1 /\ note.had
  /\ cursors[1].set /\ cursors[1].sel # NoMark
  /\ marks = Recorded(1)
  /\ Len(marks) = 2

CursorSignals == {"cursorActivity", "focus"}

\* C13: a cursorActivity or focus signal that comes while the editor does not
\* have the input focus makes no call of setAwarenessField: the local cursor
\* field is what it was before the signal.
C13_UnfocusedNeverPublishes ==
  (pub.kind \in CursorSignals /\ ~pub.hadFocus) => (~pub.wrote /\ localCursor = pub.prior)

C13_Witness ==
  /\ phase = "live" /\ cursorsOpt
  /\ pub.kind = "focus" /\ ~pub.hadFocus /\ ~focused
  /\ pub.head # 0
  /\ ~pub.wrote /\ localCursor = NullCursor

\* The selection of the last signal, encoded.
Encoded == Cursor(RelPos("text", pub.anchor), RelPos("text", pub.head))

\* C14: a cursorActivity or focus signal that comes while the editor has the
\* focus writes the local cursor field if and only if the published cursor is
\* null or its anchor or head is not the newly encoded one; the field then
\* holds the encoded selection, and a signal for an unchanged selection makes
\* no second write.
C14_PublishesIffChanged ==
  (pub.kind \in CursorSignals /\ pub.hadFocus /\ pub.kind \in cmHandlers) =>
    /\ pub.wrote <=> (~pub.prior.set \/ pub.prior.anchor # Encoded.anchor
                                    \/ pub.prior.head # Encoded.head)
    /\ localCursor = Encoded
    /\ pub.prior = Encoded => ~pub.wrote

C14_Witness ==
  /\ pub.kind = "cursorActivity" /\ pub.hadFocus /\ "cursorActivity" \in cmHandlers
  /\ pub.prior = Encoded /\ pub.anchor # pub.head
  /\ ~pub.wrote /\ localCursor = Encoded

\* C15: a blur signal on a live binding made with cursors enabled sets the
\* local cursor field to null whatever it was, null included; and a null
\* field stays null until a cursorActivity or focus signal that comes while
\* the editor has the focus.
C15_BlurSetsNull ==
  /\ []((pub.kind = "blur" /\ cursorsOpt /\ phase = "live") =>
          (pub.wrote /\ localCursor = NullCursor))
  /\ [][(localCursor = NullCursor /\ localCursor' # NullCursor) =>
          (pub'.kind \in CursorSignals /\ pub'.hadFocus /\ pub'.wrote)]_vars

C15_Witness ==
  /\ pub.kind = "blur" /\ cursorsOpt /\ phase = "live"
  /\ pub.prior = NullCursor /\ pub.wrote
  /\ localCursor = NullCursor

\* A blur that found a published cursor.
C15_WitnessSet ==
  /\ pub.kind = "blur" /\ cursorsOpt /\ phase = "live"
  /\ pub.prior.set /\ localCursor = NullCursor

\* C16: every observer call the mutex drops is an echo of what the running
\* direction has already done on the other side: when an event that found the
\* buffer equal to the shared text had an observer call dropped, the buffer
\* equals the shared text when the outer mutex call returns, also when a
\* handler that is not the binding's has made a mutation of its own during the
\* event.
C16_DroppedIsEcho ==
  (Len(stack) = 1 /\ Top.pc = "release" /\ ev.synced /\ ~ev.fault /\ ev.nDropped > 0)
    => cmValue = ytext

\* The entry of the cursor map for clientId as a function of a presence record
\* and of the document as it is: absent when there is nothing to draw, else
\* the caret at the head, labelled with the record's name and colour or their
\* fallbacks, and the span between the two offsets when they differ.
Visual(rec, clientId) ==
  IF ~rec.present \/ noCursor(rec.cursor) THEN NoEntry
  ELSE
    LET a == toAbsolutePosition(rec.cursor.anchor)
        h == toAbsolutePosition(rec.cursor.head)
        name == IF rec.user.set /\ rec.user.name # Null THEN rec.user.name ELSE FallbackName(clientId)
        color == IF rec.user.set /\ rec.user.color # Null THEN rec.user.color ELSE FallbackColor
    IN
    IF a.type # "text" \/ h.type # "text" THEN NoEntry
    ELSE [set |-> TRUE,
          caret |-> [kind |-> "caret", owner |-> clientId,
                     from |-> posFromIndex(cmValue, h.offset), to |-> posFromIndex(cmValue, h.offset),
                     name |-> name, color |-> color],
          sel |-> IF a.offset = h.offset THEN NoMark
                  ELSE [kind |-> "sel", owner |-> clientId,
                        from |-> posFromIndex(cmValue, Min(a.offset, h.offset)),
                        to |-> posFromIndex(cmValue, Max(a.offset, h.offset)),
                        name |-> Null, color |-> color]]

\* C17: after updateRemoteSelection has processed a notification for a
\* participant, the participant's entry in the cursor map (absent or present,
\* the caret's position, the span) is a function of the participant's presence
\* record and of the document as they are now: it does not depend on the entry
\* the map held before, nor on which notifications came earlier and in which
\* order.
C17_EntryIsFunctionOfRecord ==
  \A c \in Clients : note.client = c => cursors[c] = Visual(awareness[c], c)

C17_Witness ==
  /\ note.client = 1 /\ note.had
  /\ awareness[1].user = User("#00f", "bob")
  /\ awareness[1].cursor = Cursor(RelPos("text", 2), RelPos("text", 2))
  /\ cursors[1] = Visual(awareness[1], 1)
  /\ cursors[1].set /\ cursors[1].sel = NoMark

\* C18: for a change record that lists no removed line, targetObserver raises
\* no fault, makes no delete call on the shared text, and makes the insert
\* call for the record's text at the start offset.
C18_NoRemovedLinesInserts ==
  (AtRelease("targetObserver", "local") /\ Top.change.removed = <<>>) =>
    /\ ~ev.fault
    /\ CallsOf("delete") = <<>>
    /\ CallsOf("insert") = <<[op |-> "insert", at |-> ev.at, n |-> 0, s |-> join(Top.change.text)]>>

\* C19: a binding constructed with cursors disabled never writes the local
\* cursor field and never makes or clears a decoration, whatever cursor,
\* focus, blur and presence events come, while edits of the buffer and
\* mutations of the shared text are still carried over in both directions;
\* and an options object without the option enables the cursors.
C19_DisabledCursorsOnlyText ==
  /\ cursorsOption("omitted") = TRUE
  /\ ~cursorsOpt =>
       /\ ~pub.wrote /\ localCursor = NullCursor
       /\ note = NoNote /\ marks = <<>> /\ \A c \in Clients : cursors[c] = NoEntry
       /\ (Idle /\ phase = "live") => cmValue = ytext
       /\ AtRelease("targetObserver", "local") => ytext = ev.buf
       /\ AtRelease("typeObserver", "remote") => cmValue = applyDelta(ev.pre, Top.delta, 0)

C19_Witness ==
  /\ ~cursorsOpt /\ phase = "live" /\ Idle
  /\ focused /\ pub.kind = "focus" /\ pub.hadFocus
  /\ Drawable(1)
  /\ marks = <<>> /\ localCursor = NullCursor
  /\ cmValue = <<"a", "a">> /\ ytext = cmValue

\* C20: processing a presence notification leaves the presence store as it
\* was: after updateRemoteSelection has resolved the fallback colour and name
\* of a participant whose record lacks user.color or user.name, the record
\* the store returns for the participant is the record it held when the
\* notification came.
C20_StoreUnchanged ==
  \A c \in Clients : note.client = c => awareness[c] = note.rec

====
